---- MODULE Spec2Model ----
(***************************************************************************)
(* Model of the rd-station-go client: the query encoder                    *)
(* (StructToQueryString, utils.go) and the request pipeline (Client.request*)
(* and the six endpoint wrappers of contacts.go and deals.go).             *)
(*                                                                         *)
(* Text is modelled as a sequence of atoms.  An atom is either one         *)
(* reserved character ("?", "&", "=", "/", " ", "+", "%", "@", and "CTL"   *)
(* for a control byte) or a lexeme made of unreserved characters only      *)
(* (letters, digits, "-", "_", ".", "~").                                  *)
(***************************************************************************)
EXTENDS Integers, Sequences, FiniteSets, TLC

VARIABLES baseUrl, token, call, calls, invocations, encIn, encOut

vars == <<baseUrl, token, call, calls, invocations, encIn, encOut>>

\* A Go error value: nonnil tells nil from non-nil; "is" holds the sentinels
\* errors.Is matches through the %w chain; wraps tells whether the value wraps
\* an underlying cause with %w; cause is the text of the innermost error;
\* status is the status code formatted into the message (0 when none).
NilErr == [nonnil |-> FALSE, is |-> {}, wraps |-> FALSE, status |-> 0, cause |-> <<>>]

\* errors.New(text) / fmt.Errorf(text): an error of no sentinel, wrapping nothing.
RawErr(text) ==
    [nonnil |-> TRUE, is |-> {}, wraps |-> FALSE, status |-> 0, cause |-> text]

\* fmt.Errorf("%w: ... (status: %d) ...: %w", sentinel, status, e)
WrapErr(sentinel, status, e) ==
    [nonnil |-> TRUE, is |-> {sentinel} \cup e.is, wraps |-> TRUE,
     status |-> status, cause |-> e.cause]

\* ------------------------------------------------------------------ bounds
\* The longest record the encoder specification draws.
MaxFields == 2
\* The number of wrapper invocations one behaviour makes on the client.
MaxInvocations == 2
\* The number of callers that use the client at the same time.
MaxCallers == 2

\* ------------------------------------------------------------- text helpers
\* strings.Contains(s, ch) for a one-character needle.
Contains(s, ch) == \E i \in DOMAIN s : s[i] = ch

\* The atoms in byte order, as sort.Strings compares them: a key is compared
\* atom by atom, and every key of the model is made of these atoms.
Alphabet ==
    << "-", "0", "1", "5", "Direction", "F", "Flag", "Inner", "Limit", "N",
       "Order", "Page", "Tags", "U", "a", "asc", "b", "campaign_id",
       "closed_at", "closed_at_period", "created_at_period", "custom",
       "deal_lost_reason_id", "deal_pipeline_id", "deal_stage_id",
       "direction", "email", "end_date", "exact_name", "f", "flag", "hold",
       "inner", "limit", "n", "name", "next_page", "order", "organization",
       "page", "phone", "prediction_date_period", "product_presence", "q",
       "start_date", "tags", "title", "token", "true", "u", "user_id",
       "win", "x" >>

Rank(a) == IF \E i \in DOMAIN Alphabet : Alphabet[i] = a
           THEN CHOOSE i \in DOMAIN Alphabet : Alphabet[i] = a
           ELSE Len(Alphabet) + 1

RECURSIVE LessStr(_, _)
\* s < t in the byte order of Go strings.
LessStr(s, t) ==
    IF t = <<>> THEN FALSE
    ELSE IF s = <<>> THEN TRUE
    ELSE IF Rank(Head(s)) # Rank(Head(t)) THEN Rank(Head(s)) < Rank(Head(t))
    ELSE LessStr(Tail(s), Tail(t))

\* ------------------------------------------------------------ strconv, fmt
DigitChars == << "0", "1", "2", "3", "4", "5", "6", "7", "8", "9" >>

RECURSIVE Digits(_)
Digits(n) == IF n < 10 THEN << DigitChars[n + 1] >>
             ELSE Digits(n \div 10) \o << DigitChars[(n % 10) + 1] >>

\* strconv.FormatInt(n, 10)
FormatInt(n) == IF n < 0 THEN << "-" >> \o Digits(-n) ELSE Digits(n)

\* strconv.FormatBool(b)
FormatBool(b) == IF b THEN << "true" >> ELSE << "false" >>

\* fmt.Sprintf("%v", e) for a slice element e = [kind, val].
SprintV(e) ==
    CASE e.kind = "String" -> e.val
      [] e.kind \in {"Int", "Int8", "Int16", "Int32", "Int64"} -> FormatInt(e.val)
      [] e.kind = "Bool" -> FormatBool(e.val)
      [] OTHER -> << "{", "debug", "}" >>

\* ------------------------------------------------------------------ net/url
\* url.QueryEscape of one atom: unreserved lexemes stay, a space becomes "+",
\* every other reserved character becomes its %XX escape.
\* EscapeAtom that escapes the space and nothing else.
EscapeAtom_SpaceOnly(a) == IF a = " " THEN "+" ELSE a

EscapeAtom(a) ==
    CASE a = " " -> "+"
      [] a = "&" -> "%26"
      [] a = "=" -> "%3D"
      [] a = "?" -> "%3F"
      [] a = "+" -> "%2B"
      [] a = "/" -> "%2F"
      [] a = "%" -> "%25"
      [] a = "@" -> "%40"
      [] a = "{" -> "%7B"
      [] a = "}" -> "%7D"
      [] a = "CTL" -> "%7F"
      [] OTHER -> a

QueryEscape(s) == [i \in DOMAIN s |-> EscapeAtom(s[i])]

\* url.Values is a map from key to the list of its values; it is kept here
\* as the sequence of (key, value) pairs in the order of the Add calls.
ValuesAdd(q, k, v) == Append(q, [key |-> k, val |-> v])

ValuesKeys(q) == {q[i].key : i \in DOMAIN q}

RECURSIVE SortKeys(_)
\* sort.Strings over the keys of the map.
SortKeys(ks) ==
    IF ks = {} THEN <<>>
    ELSE LET m == CHOOSE k \in ks : \A o \in ks \ {k} : LessStr(k, o)
         IN  << m >> \o SortKeys(ks \ {m})

RECURSIVE ValuesOf(_, _)
\* The values added under key k, in the order they were added.
ValuesOf(q, k) ==
    IF q = <<>> THEN <<>>
    ELSE (IF Head(q).key = k THEN << Head(q).val >> ELSE <<>>)
         \o ValuesOf(Tail(q), k)

RECURSIVE EncodeKey(_, _)
EncodeKey(k, vs) ==
    IF vs = <<>> THEN <<>>
    ELSE << QueryEscape(k) \o << "=" >> \o QueryEscape(Head(vs)) >>
         \o EncodeKey(k, Tail(vs))

RECURSIVE JoinAmp(_)
JoinAmp(parts) ==
    IF parts = <<>> THEN <<>>
    ELSE IF Len(parts) = 1 THEN Head(parts)
    ELSE Head(parts) \o << "&" >> \o JoinAmp(Tail(parts))

RECURSIVE EncodeKeys(_, _)
EncodeKeys(q, ks) ==
    IF ks = <<>> THEN <<>>
    ELSE EncodeKey(Head(ks), ValuesOf(q, Head(ks))) \o EncodeKeys(q, Tail(ks))

\* url.Values.Encode: "key=value" pairs sorted by key, joined by "&".
ValuesEncode(q) == JoinAmp(EncodeKeys(q, SortKeys(ValuesKeys(q))))

\* --------------------------------------------------------- query encoder
IntKinds == {"Int", "Int8", "Int16", "Int32", "Int64"}

\* FieldTag that never reads the tag.
FieldTag_DeclaredName(f) == f.name

\* The parameter name of a field: its query tag, or its declared name when
\* the tag is absent or "-".
FieldTag(f) == IF f.tag = <<>> \/ f.tag = << "-" >> THEN f.name ELSE f.tag

RECURSIVE AddSlice_SkipsEmpty(_, _, _)
\* AddSlice that leaves out the elements whose text is empty.
AddSlice_SkipsEmpty(q, tag, elems) ==
    IF elems = <<>> THEN q
    ELSE IF SprintV(Head(elems)) = <<>>
    THEN AddSlice_SkipsEmpty(q, tag, Tail(elems))
    ELSE AddSlice_SkipsEmpty(ValuesAdd(q, tag, SprintV(Head(elems))), tag, Tail(elems))

RECURSIVE AddSlice(_, _, _)
AddSlice(q, tag, elems) ==
    IF elems = <<>> THEN q
    ELSE AddSlice(ValuesAdd(q, tag, SprintV(Head(elems))), tag, Tail(elems))

\* AddField with the zero test of the integer case left out.
AddField_KeepsZero(q, f) ==
    LET tag == FieldTag(f) IN
    CASE f.kind = "String" -> IF f.val # <<>> THEN ValuesAdd(q, tag, f.val) ELSE q
      [] f.kind \in IntKinds -> ValuesAdd(q, tag, FormatInt(f.val))
      [] f.kind = "Bool" ->
            IF f.val THEN ValuesAdd(q, tag, FormatBool(f.val)) ELSE q
      [] f.kind = "Slice" -> AddSlice(q, tag, f.val)
      [] OTHER -> q

\* One iteration of the loop over the fields: the switch on the field kind.
AddField(q, f) ==
    LET tag == FieldTag(f) IN
    CASE f.kind = "String" -> IF f.val # <<>> THEN ValuesAdd(q, tag, f.val) ELSE q
      [] f.kind \in IntKinds ->
            IF f.val # 0 THEN ValuesAdd(q, tag, FormatInt(f.val)) ELSE q
      [] f.kind = "Bool" ->
            IF f.val THEN ValuesAdd(q, tag, FormatBool(f.val)) ELSE q
      [] f.kind = "Slice" -> AddSlice(q, tag, f.val)
      [] OTHER -> q

RECURSIVE AddFields_StopsAtUnknown(_, _)
\* AddFields that ends the loop at the first field of a kind the switch has
\* no case for.
AddFields_StopsAtUnknown(q, fs) ==
    IF fs = <<>> THEN q
    ELSE IF Head(fs).kind \notin {"String", "Bool", "Slice"} \cup IntKinds THEN q
    ELSE AddFields_StopsAtUnknown(AddField(q, Head(fs)), Tail(fs))

RECURSIVE AddFields(_, _)
AddFields(q, fs) ==
    IF fs = <<>> THEN q ELSE AddFields(AddField(q, Head(fs)), Tail(fs))

\* StructToQueryString without the test of the kind of its input.
StructToQueryString_NoKindCheck(data) ==
    [out |-> ValuesEncode(AddFields(<<>>, data.fields)), err |-> NilErr]

\* StructToQueryString(data): data is [kind, fields]; the result is the pair
\* (query string, error).
StructToQueryString(data) ==
    IF data.kind # "Struct"
    THEN [out |-> <<>>, err |-> RawErr(<< "input is not a struct" >>)]
    ELSE [out |-> ValuesEncode(AddFields(<<>>, data.fields)), err |-> NilErr]

\* ------------------------------------------------------------- the client
\* The sentinel errors of the package.
ErrRequestFailed == "ErrRequestFailed"
ErrReadResponseBody == "ErrReadResponseBody"
ErrApiReturnedError == "ErrApiReturnedError"
ErrDecodeResponse == "ErrDecodeResponse"

StatusOK == 200
StatusCreated == 201

\* The configuration a client is constructed with.  The second base URL is
\* that of a forwarding gateway, which carries a query string of its own.
BaseUrls ==
    { << "https:", "/", "/", "crm.rdstation.com", "/", "api", "/", "v1" >>,
      << "https:", "/", "/", "gw.example", "/", "fwd", "?", "u", "=", "crm" >> }

Tokens == { << "tok" >>, << "tok2" >> }

\* The endpoint paths of the wrappers.
listContactsEndpoint == << "contacts" >>
createContactEndpoint == << "contacts" >>
updateContactByIDEndpoint(contactID) == << "contacts", "/" >> \o contactID
listDealsEndpoint == << "deals" >>
createDealEndpoint == << "deals" >>
updateDealByIDEndpoint(dealID) == << "deals", "/" >> \o dealID

\* The declared fields of the two filter records: (name, query tag), all of
\* kind string.
ListContactsFilterRequest ==
    << << "Token", "token" >>, << "Page", "page" >>, << "Limit", "limit" >>,
       << "Order", "order" >>, << "Direction", "direction" >>,
       << "Email", "email" >>, << "Q", "q" >>, << "Phone", "phone" >>,
       << "Title", "title" >> >>

ListDealsFilterRequest ==
    << << "Token", "token" >>, << "Page", "page" >>, << "Limit", "limit" >>,
       << "Order", "order" >>, << "Direction", "direction" >>,
       << "Name", "name" >>, << "ExactName", "exact_name" >>,
       << "Win", "win" >>, << "UserID", "user_id" >>,
       << "ClosedAt", "closed_at" >>,
       << "ClosedAtPeriod", "closed_at_period" >>,
       << "CreatedAtPeriod", "created_at_period" >>,
       << "PredictionDatePeriod", "prediction_date_period" >>,
       << "StartDate", "start_date" >>, << "EndDate", "end_date" >>,
       << "CampaignID", "campaign_id" >>, << "DealStageID", "deal_stage_id" >>,
       << "DealLostReasonID", "deal_lost_reason_id" >>,
       << "DealPipelineID", "deal_pipeline_id" >>,
       << "Organization", "organization" >>, << "Hold", "hold" >>,
       << "ProductPresence", "product_presence" >>,
       << "NextPage", "next_page" >> >>

\* reflect.ValueOf(filter): the filter as a struct value; filter maps the
\* names of its non-empty fields to their texts.
FilterValue(decl, filter) ==
    [kind |-> "Struct",
     fields |-> [i \in DOMAIN decl |->
                    [name |-> << decl[i][1] >>, tag |-> << decl[i][2] >>,
                     kind |-> "String",
                     val |-> IF decl[i][1] \in DOMAIN filter
                             THEN filter[decl[i][1]] ELSE <<>>]]]

\* A request body value: nil (absent) for the listing calls; a payload
\* record otherwise, which json.Marshal rejects when it holds a value JSON
\* cannot express (a NaN rating, a channel in a custom field value).
NoBody == [present |-> FALSE, unsupported |-> FALSE]

\* jsonMarshal with the encoder's error dropped.
jsonMarshal_IgnoresError(reqBody) == [out |-> << "{payload}" >>, err |-> NilErr]

\* json.Marshal(reqBody)
jsonMarshal(reqBody) ==
    IF reqBody.unsupported
    THEN [out |-> <<>>, err |-> RawErr(<< "json: unsupported value" >>)]
    ELSE [out |-> << "{payload}" >>, err |-> NilErr]

\* http.NewRequestWithContext(ctx, method, url, body): the methods of the
\* wrappers are valid and their context is a live one, so it fails only on
\* a URL that does not parse (a control character in it).
NewRequestWithContext(method, url) ==
    IF Contains(url, "CTL")
    THEN RawErr(<< "parse: invalid control character in URL" >>)
    ELSE NilErr

\* request with the token always joined by "?".
request_AlwaysQuestionMark(reqBody, method, endpoint) ==
    LET m == IF reqBody.present THEN jsonMarshal(reqBody)
             ELSE [out |-> <<>>, err |-> NilErr]
        url == baseUrl \o << "/" >> \o endpoint \o << "?", "token", "=" >> \o token
        e == NewRequestWithContext(method, url)
    IN  IF m.err.nonnil
        THEN [err |-> m.err, url |-> <<>>, sent |-> FALSE, step |-> "marshal"]
        ELSE IF e.nonnil
        THEN [err |-> e, url |-> <<>>, sent |-> FALSE, step |-> "newrequest"]
        ELSE [err |-> NilErr, url |-> url, sent |-> TRUE, step |-> "ok"]

\* Client.request up to the point where it hands the request to the
\* transport: (error, url, whether httpClient.Do is called, the step that
\* failed).
request(reqBody, method, endpoint) ==
    LET m == IF reqBody.present THEN jsonMarshal(reqBody)
             ELSE [out |-> <<>>, err |-> NilErr]
        url0 == baseUrl \o << "/" >> \o endpoint
        separator == IF Contains(url0, "?") THEN "&" ELSE "?"
        url == url0 \o << separator, "token", "=" >> \o token
        e == NewRequestWithContext(method, url)
    IN  IF m.err.nonnil
        THEN [err |-> m.err, url |-> <<>>, sent |-> FALSE, step |-> "marshal"]
        ELSE IF e.nonnil
        THEN [err |-> e, url |-> <<>>, sent |-> FALSE, step |-> "newrequest"]
        ELSE [err |-> NilErr, url |-> url, sent |-> TRUE, step |-> "ok"]

Wrappers ==
    { "ListContactsFilter", "CreateContact", "UpdateContact",
      "ListDealsFilter", "CreateDeal", "UpdateDeal" }

\* AcceptableStatus accepting every 2xx status.
AcceptableStatus_Any2xx(w, status) == status \in 200 .. 299

\* The status test each wrapper makes on the response.
AcceptableStatus(w, status) ==
    CASE w = "ListContactsFilter" -> status = StatusOK
      [] w = "CreateContact" -> status = StatusOK \/ status = StatusCreated
      [] w = "UpdateContact" -> status = StatusOK
      [] w = "ListDealsFilter" -> status = StatusOK
      [] w = "CreateDeal" -> status = StatusOK \/ status = StatusCreated
      [] w = "UpdateDeal" -> status = StatusOK

\* A decoded result: nil, or a pointer to the payload, which is zero-valued
\* when the decoded object set no field.
NilResult == [nonnil |-> FALSE, zero |-> FALSE]

\* The state of one wrapper call.
IdleCall ==
    [pc |-> "idle", w |-> "none", endpoint |-> <<>>, query |-> <<>>,
     reqBody |-> NoBody, ctxDone |-> FALSE,
     cancelAt |-> "none", preflight |-> "none", url |-> <<>>,
     netCalls |-> 0, transport |-> "none", status |-> 0, body |-> <<>>,
     failAt |-> -1, bodyOpen |-> FALSE, bodyCloses |-> 0, readCalls |-> 0,
     decodeCalls |-> 0, result |-> NilResult, err |-> NilErr]

\* The goroutines that share the client, and their calls before any starts.
Callers == 1 .. MaxCallers
NoCalls == [t \in Callers |-> IdleCall]

\* RequestErr returning the error of s.request as it is.
RequestErr_Raw(err) == err

\* return nil, fmt.Errorf("%w: error making request to ...: %w", ErrRequestFailed, err)
RequestErr(err) == WrapErr(ErrRequestFailed, 0, err)

\* Begin with the test of the query string left out: the "?" is appended
\* even when the filter encodes to nothing.
Begin_AlwaysAppendsQuery(w, qs, reqBody, method, endpoint) ==
    LET fullPath == endpoint \o << "?" >> \o qs.out
        r == request(reqBody, method, fullPath)
        c == [IdleCall EXCEPT !.w = w, !.endpoint = fullPath, !.query = qs.out,
                              !.reqBody = reqBody]
    IN  IF qs.err.nonnil
        THEN [c EXCEPT !.pc = "done", !.preflight = "encode",
                       !.err = [qs.err EXCEPT !.wraps = TRUE]]
        ELSE IF r.err.nonnil
        THEN [c EXCEPT !.pc = "done", !.preflight = r.step,
                       !.err = RequestErr(r.err)]
        ELSE [c EXCEPT !.pc = "inflight", !.preflight = "ok", !.url = r.url,
                       !.netCalls = @ + 1]

\* Begin that hands the request to the transport before it looks at the
\* error of its construction.
Begin_SendsBeforeCheck(w, qs, reqBody, method, endpoint) ==
    LET fullPath == IF qs.out # <<>> THEN endpoint \o << "?" >> \o qs.out
                    ELSE endpoint
        r == request(reqBody, method, fullPath)
        c == [IdleCall EXCEPT !.w = w, !.endpoint = fullPath, !.query = qs.out,
                              !.reqBody = reqBody]
    IN  IF qs.err.nonnil
        THEN [c EXCEPT !.pc = "done", !.preflight = "encode",
                       !.err = [qs.err EXCEPT !.wraps = TRUE]]
        ELSE IF r.err.nonnil
        THEN [c EXCEPT !.pc = "done", !.preflight = r.step,
                       !.err = RequestErr(r.err), !.netCalls = @ + 1]
        ELSE [c EXCEPT !.pc = "inflight", !.preflight = "ok", !.url = r.url,
                       !.netCalls = @ + 1]

\* A wrapper from its entry to the return of s.request: the call either
\* returns the wrapped error or is in flight in the transport.  qs is the
\* result of StructToQueryString for the listing wrappers.
Begin(w, qs, reqBody, method, endpoint) ==
    LET fullPath == IF qs.out # <<>> THEN endpoint \o << "?" >> \o qs.out
                    ELSE endpoint
        r == request(reqBody, method, fullPath)
        c == [IdleCall EXCEPT !.w = w, !.endpoint = fullPath, !.query = qs.out,
                              !.reqBody = reqBody]
    IN  IF qs.err.nonnil
        THEN [c EXCEPT !.pc = "done", !.preflight = "encode",
                       !.err = [qs.err EXCEPT !.wraps = TRUE]]
        ELSE IF r.err.nonnil
        THEN [c EXCEPT !.pc = "done", !.preflight = r.step,
                       !.err = RequestErr(r.err)]
        ELSE [c EXCEPT !.pc = "inflight", !.preflight = "ok", !.url = r.url,
                       !.netCalls = @ + 1]

NoQuery == [out |-> <<>>, err |-> NilErr]

\* ----------------------------------------------------- the response body
\* A response body is a sequence of chunks: "{}" is a JSON object that sets
\* no field of the target, "{data}" a JSON object that fills the target,
\* "[]" a JSON value of the wrong type, " " white space, and any other chunk
\* is text that is not JSON.  The stream delivers the first failAt chunks and
\* then fails; failAt = -1 is a stream that ends normally.
Delivered(body, failAt) == IF failAt = -1 THEN body ELSE SubSeq(body, 1, failAt)

RECURSIVE SkipSpace(_)
SkipSpace(s) == IF s # <<>> /\ Head(s) = " " THEN SkipSpace(Tail(s)) ELSE s

\* io.ReadAll(resp.Body)
ioReadAll(body, failAt, readErr) ==
    IF failAt = -1 THEN [bytes |-> body, err |-> NilErr]
    ELSE [bytes |-> Delivered(body, failAt), err |-> readErr]

\* json.NewDecoder(resp.Body).Decode(&responsePayload): reads the next JSON
\* value from the stream and stores it in the target; what follows that
\* value in the stream is not read.
jsonDecode(body, failAt, readErr) ==
    LET s == SkipSpace(Delivered(body, failAt)) IN
    IF s = <<>>
    THEN [result |-> NilResult,
          err |-> IF failAt = -1 THEN RawErr(<< "EOF" >>) ELSE readErr]
    ELSE CASE Head(s) = "{}" ->
                [result |-> [nonnil |-> TRUE, zero |-> TRUE], err |-> NilErr]
           [] Head(s) = "{data}" ->
                [result |-> [nonnil |-> TRUE, zero |-> FALSE], err |-> NilErr]
           [] Head(s) = "[]" ->
                [result |-> NilResult,
                 err |-> RawErr(<< "json: cannot unmarshal array" >>)]
           [] OTHER ->
                [result |-> NilResult,
                 err |-> RawErr(<< "invalid character" >>)]

\* The error a read of the body fails with.
ReadFailure(c) ==
    IF c.ctxDone THEN RawErr(<< "context canceled" >>)
    ELSE RawErr(<< "unexpected EOF" >>)

\* ReadBodyErr that reports the failed read as an error of the API.
ReadBodyErr_AsApiError(status, readErr) ==
    WrapErr(ErrApiReturnedError, status, readErr)

\* fmt.Errorf("%w: failed to ... (status: %d), read response body error: %w", ...)
ReadBodyErr(status, readErr) == WrapErr(ErrReadResponseBody, status, readErr)

\* ApiErr without the body text.
ApiErr_DropsBody(status, bodyBytes) ==
    WrapErr(ErrApiReturnedError, status, RawErr(<<>>))

\* bodyErr := errors.New(string(bodyBytes));
\* fmt.Errorf("%w: failed to ... (status: %d): %w", ErrApiReturnedError, status, bodyErr)
ApiErr(status, bodyBytes) == WrapErr(ErrApiReturnedError, status, RawErr(bodyBytes))

\* fmt.Errorf("%w: error decoding ... response: %w", ErrDecodeResponse, err)
DecodeErr(err) == WrapErr(ErrDecodeResponse, 0, err)

\* CloseBody as a Close call placed after the decode instead of a defer: the
\* early returns skip it.
CloseBody_OnSuccessOnly(c) ==
    IF c.err.nonnil THEN c
    ELSE [c EXCEPT !.bodyOpen = FALSE, !.bodyCloses = @ + 1]

\* defer resp.Body.Close(), run as the wrapper returns.
CloseBody(c) == [c EXCEPT !.bodyOpen = FALSE, !.bodyCloses = @ + 1]

\* TransportFailed with one more attempt before giving up.
TransportFailed_Retries(c, err) ==
    IF c.netCalls < 2 THEN [c EXCEPT !.netCalls = @ + 1]
    ELSE [c EXCEPT !.pc = "done", !.transport = "failed",
                   !.err = WrapErr(ErrRequestFailed, 0, err)]

\* httpClient.Do returned an error: request returns it, the wrapper wraps it
\* and returns; there is no response and no body.
TransportFailed(c, err) ==
    [c EXCEPT !.pc = "done", !.transport = "failed", !.err = RequestErr(err)]

\* httpClient.Do returned a response: the wrapper now owns its body.
TransportResponded(c, status, body, failAt) ==
    [c EXCEPT !.pc = "body", !.transport = "ok", !.status = status,
              !.body = body, !.failAt = failAt, !.bodyOpen = TRUE]

\* HandleResponse that returns the payload it decoded into next to the
\* decode error.
HandleResponse_KeepsPayload(c) ==
    IF ~AcceptableStatus(c.w, c.status)
    THEN LET r == ioReadAll(c.body, c.failAt, ReadFailure(c))
             d == [c EXCEPT !.pc = "done", !.readCalls = @ + 1]
         IN  IF r.err.nonnil
             THEN CloseBody([d EXCEPT !.err = ReadBodyErr(c.status, r.err)])
             ELSE CloseBody([d EXCEPT !.err = ApiErr(c.status, r.bytes)])
    ELSE LET r == jsonDecode(c.body, c.failAt, ReadFailure(c))
             d == [c EXCEPT !.pc = "done", !.decodeCalls = @ + 1]
         IN  IF r.err.nonnil
             THEN CloseBody([d EXCEPT !.err = DecodeErr(r.err),
                                      !.result = [nonnil |-> TRUE, zero |-> TRUE]])
             ELSE CloseBody([d EXCEPT !.result = r.result])

\* A wrapper from the status test to its return.
HandleResponse(c) ==
    IF ~AcceptableStatus(c.w, c.status)
    THEN LET r == ioReadAll(c.body, c.failAt, ReadFailure(c))
             d == [c EXCEPT !.pc = "done", !.readCalls = @ + 1]
         IN  IF r.err.nonnil
             THEN CloseBody([d EXCEPT !.err = ReadBodyErr(c.status, r.err)])
             ELSE CloseBody([d EXCEPT !.err = ApiErr(c.status, r.bytes)])
    ELSE LET r == jsonDecode(c.body, c.failAt, ReadFailure(c))
             d == [c EXCEPT !.pc = "done", !.decodeCalls = @ + 1]
         IN  IF r.err.nonnil
             THEN CloseBody([d EXCEPT !.err = DecodeErr(r.err)])
             ELSE CloseBody([d EXCEPT !.result = r.result])

\* ------------------------------------------------------------------ inputs
Statuses == {200, 201, 204, 304, 404}

Bodies ==
    { <<>>, << "{}" >>, << "{data}" >>, << "[]" >>, << "not found" >>,
      << "{}", "not found" >>, << " ", "{data}" >> }

TransportCauses == { "connection refused", "connection reset" }

ContactFilters ==
    << <<>>,
       ("Limit" :> << "5" >> @@ "Page" :> << "1" >> @@ "Order" :> << "name" >>
          @@ "Direction" :> << "asc" >>),
       ("Token" :> << "x" >>),
       ("Q" :> << "a", "&", "b" >>) >>

DealFilters ==
    << <<>>,
       ("Limit" :> << "5" >> @@ "Page" :> << "1" >> @@ "Order" :> << "name" >>
          @@ "Direction" :> << "asc" >>),
       ("Token" :> << "x" >> @@ "Win" :> << "true" >>),
       ("Name" :> << "a", " ", "b" >>) >>

\* Resource identifiers: a plain one, one holding a "?", one holding a
\* control character.
Ids == << << "67ff" >>, << "a", "?", "b" >>, << "CTL" >> >>

Payloads ==
    { [present |-> TRUE, unsupported |-> FALSE],
      [present |-> TRUE, unsupported |-> TRUE] }

\* ----------------------------------------------------------------- actions
CanInvoke == call.pc = "idle" /\ invocations < MaxInvocations

Invoke(c) ==
    /\ CanInvoke
    /\ call' = c
    /\ invocations' = invocations + 1
    /\ UNCHANGED <<baseUrl, token, calls, encIn, encOut>>

ListContactsFilter(filter) ==
    Invoke(Begin("ListContactsFilter",
                 StructToQueryString(FilterValue(ListContactsFilterRequest, filter)),
                 NoBody, "GET", listContactsEndpoint))

CreateContact(contact) ==
    Invoke(Begin("CreateContact", NoQuery, contact, "POST",
                 createContactEndpoint))

UpdateContact(contactID, contact) ==
    Invoke(Begin("UpdateContact", NoQuery, contact, "PUT",
                 updateContactByIDEndpoint(contactID)))

ListDealsFilter(filter) ==
    Invoke(Begin("ListDealsFilter",
                 StructToQueryString(FilterValue(ListDealsFilterRequest, filter)),
                 NoBody, "GET", listDealsEndpoint))

CreateDeal(deal) ==
    Invoke(Begin("CreateDeal", NoQuery, deal, "POST", createDealEndpoint))

UpdateDeal(dealID, deal) ==
    Invoke(Begin("UpdateDeal", NoQuery, deal, "PUT",
                 updateDealByIDEndpoint(dealID)))

\* The caller's cancellation signal fires while the call is in flight.  In
\* the transport it makes httpClient.Do return the context's error; once the
\* response is held, the reads of the body that have not been served yet
\* fail (f is the number of chunks the stream still delivers).
CtxCancel ==
    /\ call.pc \in {"inflight", "body"}
    /\ ~call.ctxDone
    /\ \E f \in -1 .. Len(call.body) :
          /\ call.pc = "inflight" => f = -1
          /\ (call.pc = "body" /\ call.failAt # -1) => f = call.failAt
          /\ call' = [call EXCEPT !.ctxDone = TRUE,
                                  !.cancelAt = IF call.pc = "inflight"
                                               THEN "transport" ELSE "body",
                                  !.failAt = f]
    /\ UNCHANGED <<baseUrl, token, calls, invocations, encIn, encOut>>

\* httpClient.Do fails.
TransportError ==
    /\ call.pc = "inflight"
    /\ \E cause \in (IF call.ctxDone THEN {"context canceled"} ELSE TransportCauses) :
          call' = TransportFailed(call, RawErr(<< cause >>))
    /\ UNCHANGED <<baseUrl, token, calls, invocations, encIn, encOut>>

\* TransportResponse for a request built without the caller's context: the
\* round trip goes on after the signal has fired.
TransportResponse_IgnoresCtx ==
    /\ call.pc = "inflight"
    /\ \E status \in Statuses, body \in Bodies :
          \E failAt \in -1 .. Len(body) :
             call' = [call EXCEPT !.pc = "body", !.transport = "ok",
                                  !.status = status, !.body = body,
                                  !.failAt = failAt, !.bodyOpen = TRUE]
    /\ UNCHANGED <<baseUrl, token, calls, invocations, encIn, encOut>>

\* httpClient.Do returns a response.
TransportResponse ==
    /\ call.pc = "inflight"
    /\ ~call.ctxDone
    /\ \E status \in Statuses, body \in Bodies :
          \E failAt \in -1 .. Len(body) :
             call' = TransportResponded(call, status, body, failAt)
    /\ UNCHANGED <<baseUrl, token, calls, invocations, encIn, encOut>>

\* The status is not acceptable: drain the body, return the error.
ReadErrorBody ==
    /\ call.pc = "body"
    /\ ~AcceptableStatus(call.w, call.status)
    /\ call' = HandleResponse(call)
    /\ UNCHANGED <<baseUrl, token, calls, invocations, encIn, encOut>>

\* The status is acceptable: decode the body, return.
DecodeBody ==
    /\ call.pc = "body"
    /\ AcceptableStatus(call.w, call.status)
    /\ call' = HandleResponse(call)
    /\ UNCHANGED <<baseUrl, token, calls, invocations, encIn, encOut>>

\* The caller has the outcome; the client is ready for its next call.
Return ==
    /\ call.pc = "done"
    /\ call' = IdleCall
    /\ UNCHANGED <<baseUrl, token, calls, invocations, encIn, encOut>>

NoRecord == [kind |-> "Struct", fields |-> <<>>]
NoOutput == [done |-> FALSE, out |-> <<>>, err |-> NilErr]

Init ==
    /\ baseUrl \in BaseUrls
    /\ token \in Tokens
    /\ call = IdleCall
    /\ invocations = 0
    /\ encIn = NoRecord
    /\ encOut = NoOutput
    /\ calls = NoCalls

Next ==
    \/ \E i \in DOMAIN ContactFilters : ListContactsFilter(ContactFilters[i])
    \/ \E contact \in Payloads : CreateContact(contact)
    \/ \E i \in DOMAIN Ids, contact \in Payloads : UpdateContact(Ids[i], contact)
    \/ \E i \in DOMAIN DealFilters : ListDealsFilter(DealFilters[i])
    \/ \E deal \in Payloads : CreateDeal(deal)
    \/ \E i \in DOMAIN Ids, deal \in Payloads : UpdateDeal(Ids[i], deal)
    \/ CtxCancel
    \/ TransportError
    \/ TransportResponse
    \/ ReadErrorBody
    \/ DecodeBody
    \/ Return

Spec == Init /\ [][Next]_vars

\* ------------------------------------------- the encoder on its own
\* The fields the encoder specification builds its records from: every kind
\* the switch tells apart, at its zero value and at a non-zero one, with a
\* tag, without one and with the tag "-".
FieldChoices ==
    << [name |-> << "Limit" >>, tag |-> << "limit" >>, kind |-> "String", val |-> <<>>],
       [name |-> << "Limit" >>, tag |-> << "limit" >>, kind |-> "String", val |-> << "5" >>],
       [name |-> << "Page" >>, tag |-> <<>>, kind |-> "String", val |-> << "1" >>],
       [name |-> << "Order" >>, tag |-> << "custom" >>, kind |-> "String",
        val |-> << "a", "&", "b", "=", "?", " ", "+" >>],
       [name |-> << "Direction" >>, tag |-> << "-" >>, kind |-> "String", val |-> << "asc" >>],
       [name |-> << "N" >>, tag |-> << "n" >>, kind |-> "Int", val |-> 0],
       [name |-> << "N" >>, tag |-> << "n" >>, kind |-> "Int", val |-> 5],
       [name |-> << "N" >>, tag |-> << "n" >>, kind |-> "Int8", val |-> -12],
       [name |-> << "N" >>, tag |-> <<>>, kind |-> "Int64", val |-> 1050],
       [name |-> << "Flag" >>, tag |-> << "flag" >>, kind |-> "Bool", val |-> TRUE],
       [name |-> << "Flag" >>, tag |-> << "flag" >>, kind |-> "Bool", val |-> FALSE],
       [name |-> << "Tags" >>, tag |-> << "tags" >>, kind |-> "Slice", val |-> <<>>],
       [name |-> << "Tags" >>, tag |-> << "tags" >>, kind |-> "Slice",
        val |-> << [kind |-> "String", val |-> << "a" >>],
                   [kind |-> "String", val |-> <<>>],
                   [kind |-> "Int", val |-> 0] >>],
       [name |-> << "F" >>, tag |-> << "f" >>, kind |-> "Float64", val |-> 1],
       [name |-> << "U" >>, tag |-> << "u" >>, kind |-> "Uint", val |-> 5],
       [name |-> << "Inner" >>, tag |-> << "inner" >>, kind |-> "Struct", val |-> 0],
       [name |-> << "P" >>, tag |-> << "p" >>, kind |-> "Ptr", val |-> 0],
       [name |-> << "M" >>, tag |-> << "m" >>, kind |-> "Map", val |-> 0],
       [name |-> << "I" >>, tag |-> <<>>, kind |-> "Interface", val |-> 0] >>

\* The record of the listing tests: {Limit: "5", Page: "1", Order: "name",
\* Direction: "asc"} under the tags of the filter records.
ExampleRecord ==
    [kind |-> "Struct",
     fields |-> << [name |-> << "Page" >>, tag |-> << "page" >>, kind |-> "String", val |-> << "1" >>],
                   [name |-> << "Limit" >>, tag |-> << "limit" >>, kind |-> "String", val |-> << "5" >>],
                   [name |-> << "Order" >>, tag |-> << "order" >>, kind |-> "String", val |-> << "name" >>],
                   [name |-> << "Direction" >>, tag |-> << "direction" >>, kind |-> "String",
                    val |-> << "asc" >>] >>]

\* Values that are not structs: a scalar, a map, a pointer to a struct, nil.
NonStructs ==
    << [kind |-> "Int", fields |-> <<>>], [kind |-> "Map", fields |-> <<>>],
       [kind |-> "Ptr", fields |-> <<>>], [kind |-> "Invalid", fields |-> <<>>] >>

InitEnc ==
    /\ baseUrl = << "https:", "/", "/", "crm.rdstation.com", "/", "api", "/", "v1" >>
    /\ token = << "tok" >>
    /\ call = IdleCall
    /\ invocations = 0
    /\ encOut = NoOutput
    /\ calls = NoCalls
    /\ \/ \E k \in 0 .. MaxFields :
             \E idx \in [1 .. k -> DOMAIN FieldChoices] :
                encIn = [kind |-> "Struct",
                         fields |-> [j \in 1 .. k |-> FieldChoices[idx[j]]]]
       \/ encIn = ExampleRecord
       \/ \E i \in DOMAIN NonStructs : encIn = NonStructs[i]

\* A caller applies the encoder to its record.
Encode ==
    /\ ~encOut.done
    /\ LET r == StructToQueryString(encIn)
       IN  encOut' = [done |-> TRUE, out |-> r.out, err |-> r.err]
    /\ UNCHANGED <<baseUrl, token, calls, call, invocations, encIn>>

NextEnc == Encode

SpecEnc == InitEnc /\ [][NextEnc]_vars

\* ------------------------------------------- the encoder invoked again
\* url.Values is a Go map: the loop of Encode that collects its keys visits
\* them in an order the runtime chooses anew on every call.
MapOrders(ks) ==
    {o \in [1 .. Cardinality(ks) -> ks] : \A i, j \in DOMAIN o : i # j => o[i] # o[j]}

\* ValuesEncodeIn that writes the keys in the order the map gave them.
ValuesEncodeIn_Unsorted(q, order) == JoinAmp(EncodeKeys(q, order))

\* url.Values.Encode when the map hands its keys out in the given order: the
\* keys are sorted before the pairs are written.
ValuesEncodeIn(q, order) ==
    JoinAmp(EncodeKeys(q, SortKeys({order[i] : i \in DOMAIN order})))

\* One more invocation of StructToQueryString on the same record.
Reencode ==
    /\ invocations < MaxInvocations
    /\ LET q == AddFields(<<>>, encIn.fields) IN
       \E order \in MapOrders(ValuesKeys(q)) :
          encOut' = [done |-> TRUE,
                     out |-> IF encIn.kind # "Struct" THEN <<>>
                             ELSE ValuesEncodeIn(q, order),
                     err |-> StructToQueryString(encIn).err]
    /\ invocations' = invocations + 1
    /\ UNCHANGED <<baseUrl, token, calls, call, encIn>>

NextRepeat == Reencode

SpecRepeat == InitEnc /\ [][NextRepeat]_vars

\* --------------------------------------------- callers sharing the client
\* Each caller runs a wrapper in its own goroutine: the locals of its call
\* (request, response, error, result) are calls[t]; the client's fields are
\* read by all of them.
\* The calls a caller starts: a deals listing with a filter, a creation with
\* a payload that serializes and one with a payload that does not.
ConcStarts ==
    { Begin("ListDealsFilter",
            StructToQueryString(FilterValue(ListDealsFilterRequest, DealFilters[2])),
            NoBody, "GET", listDealsEndpoint) }
    \cup { Begin("CreateContact", NoQuery, contact, "POST", createContactEndpoint) :
              contact \in Payloads }

\* The responses the service gives them.
ConcResponses ==
    { [status |-> 200, body |-> << "{data}" >>, failAt |-> -1],
      [status |-> 200, body |-> << "[]" >>, failAt |-> -1],
      [status |-> 404, body |-> << "not found" >>, failAt |-> -1],
      [status |-> 404, body |-> << "not found" >>, failAt |-> 0] }

\* Caller t calls a wrapper.
ConcInvoke(t) ==
    /\ calls[t].pc = "idle"
    /\ \E c \in ConcStarts : calls' = [calls EXCEPT ![t] = c]
    /\ UNCHANGED <<baseUrl, token, call, invocations, encIn, encOut>>

\* httpClient.Do fails for caller t.
ConcTransportError(t) ==
    /\ calls[t].pc = "inflight"
    /\ calls' = [calls EXCEPT
                   ![t] = TransportFailed(@, RawErr(<< "connection refused" >>))]
    /\ UNCHANGED <<baseUrl, token, call, invocations, encIn, encOut>>

\* httpClient.Do returns a response to caller t.
ConcTransportResponse(t) ==
    /\ calls[t].pc = "inflight"
    /\ \E r \in ConcResponses :
          calls' = [calls EXCEPT
                      ![t] = TransportResponded(@, r.status, r.body, r.failAt)]
    /\ UNCHANGED <<baseUrl, token, call, invocations, encIn, encOut>>

\* ConcHandleResponse with err declared outside the wrapper: the assignment
\* of one caller is seen by the others.
ConcHandleResponse_SharedErr(t) ==
    /\ calls[t].pc = "body"
    /\ calls' = [u \in Callers |->
                   IF u = t THEN HandleResponse(calls[t])
                   ELSE [calls[u] EXCEPT !.err = HandleResponse(calls[t]).err]]
    /\ UNCHANGED <<baseUrl, token, call, invocations, encIn, encOut>>

\* Caller t tests the status, reads or decodes its body and returns.
ConcHandleResponse(t) ==
    /\ calls[t].pc = "body"
    /\ calls' = [calls EXCEPT ![t] = HandleResponse(@)]
    /\ UNCHANGED <<baseUrl, token, call, invocations, encIn, encOut>>

NextConc ==
    \E t \in Callers :
       \/ ConcInvoke(t)
       \/ ConcTransportError(t)
       \/ ConcTransportResponse(t)
       \/ ConcHandleResponse(t)

SpecConc == Init /\ [][NextConc]_vars

\* Once the caller's signal has fired, the transport aborts the round trip
\* and the reads of the body, so the step the call is blocked in completes.
CancelledProgress ==
    call.ctxDone /\ (TransportError \/ ReadErrorBody \/ DecodeBody)

FairSpec == Spec /\ WF_vars(CancelledProgress)

\* ================================================================== claims
\* The taxonomy's kinds, as the sentinels errors.Is tells them by.
Sentinels ==
    {ErrRequestFailed, ErrReadResponseBody, ErrApiReturnedError, ErrDecodeResponse}

\* The acceptable status set the specification states for each wrapper.
AcceptableSet(w) ==
    IF w \in {"CreateContact", "CreateDeal"} THEN {200, 201} ELSE {200}

Done == call.pc = "done"
Responded == Done /\ call.transport = "ok"

\* A body that is, as a whole, one JSON object for the target type (white
\* space around it allowed).
ValidJSONForTarget(body) ==
    SelectSeq(body, LAMBDA ch : ch # " ") \in { << "{}" >>, << "{data}" >> }

\* C1: when the transport succeeds, the status is not acceptable and the body
\* is read in full, the wrapper returns a nil result and an ApiError that
\* carries the status code and the body text verbatim, and no decode of the
\* body is attempted.
C1_ApiErrorCarriesStatusAndBody ==
    (Responded /\ call.status \notin AcceptableSet(call.w) /\ call.failAt = -1)
    => /\ ~call.result.nonnil
       /\ call.err.nonnil
       /\ ErrApiReturnedError \in call.err.is
       /\ call.err.status = call.status
       /\ call.err.cause = call.body
       /\ call.decodeCalls = 0

\* A 404 with the body "not found" has been turned into ApiError{404, "not found"}.
C1_Witness ==
    /\ Done
    /\ call.w = "ListContactsFilter"
    /\ call.status = 404
    /\ call.body = << "not found" >>
    /\ call.err.is = {ErrApiReturnedError}
    /\ call.err.status = 404
    /\ call.err.cause = << "not found" >>

\* C2: when the status is acceptable but the body is not valid JSON for the
\* target type, the wrapper returns a DecodeError wrapping the decoder's
\* cause and a nil result, never a nil error with a result.
C2_InvalidBodyYieldsDecodeError ==
    (Responded /\ call.status \in AcceptableSet(call.w)
       /\ ~ValidJSONForTarget(call.body))
    => /\ call.err.nonnil
       /\ ErrDecodeResponse \in call.err.is
       /\ call.err.wraps
       /\ ~call.result.nonnil

\* C3: a response body obtained from the transport is closed by the time
\* the wrapper returns, on every exit path.
C3_BodyClosedOnReturn ==
    Done => /\ ~call.bodyOpen
            /\ call.transport = "ok" => call.bodyCloses = 1

\* A call that failed to decode has returned with its body closed.
C3_Witness ==
    /\ Done
    /\ call.transport = "ok"
    /\ call.err.is = {ErrDecodeResponse}
    /\ call.bodyCloses = 1
    /\ ~call.bodyOpen

\* C4: a failing call returns an error that matches exactly one kind of the
\* taxonomy and wraps the underlying cause; no raw error reaches the caller.
C4_ExactlyOneClassifiedError ==
    (Done /\ call.err.nonnil)
    => /\ Cardinality(call.err.is) = 1
       /\ call.err.is \subseteq Sentinels
       /\ call.err.wraps
       /\ ~call.result.nonnil

\* An update call whose URL does not parse has returned a classified error.
C4_Witness ==
    /\ Done
    /\ call.w = "UpdateDeal"
    /\ call.preflight = "newrequest"
    /\ call.err.is = {ErrRequestFailed}
    /\ call.err.wraps

\* C5 as stated: a transport failure yields a TransportError, and a
\* cancellation that fires at any point while the call is in flight (also
\* while the body is read or decoded) makes the call return a TransportError.
C5_CancelInFlightYieldsTransportError ==
    /\ (Done /\ call.transport = "failed") => ErrRequestFailed \in call.err.is
    /\ (Done /\ call.cancelAt # "none")
       => (call.err.nonnil /\ ErrRequestFailed \in call.err.is)

C5_Safety ==
    /\ (Done /\ call.transport = "failed")
       => (call.err.is = {ErrRequestFailed} /\ call.err.wraps
           /\ ~call.result.nonnil)
    /\ (Done /\ call.cancelAt = "transport")
       => (call.transport = "failed" /\ call.err.is = {ErrRequestFailed}
           /\ call.err.cause = << "context canceled" >>)
    /\ (Done /\ call.cancelAt = "body")
       => /\ ErrRequestFailed \notin call.err.is
          /\ (call.status \notin AcceptableSet(call.w) /\ call.failAt # -1)
             => (call.err.is = {ErrReadResponseBody}
                 /\ call.err.cause = << "context canceled" >>)
          /\ (call.status \in AcceptableSet(call.w) /\ call.err.nonnil)
             => call.err.is = {ErrDecodeResponse}

\* C5, amended: a transport failure yields a TransportError wrapping the
\* cause; a cancellation that fires while the transport call is in progress
\* makes the call return a TransportError wrapping the context's error; a
\* cancellation that fires after the response was returned never yields a
\* TransportError: a read it breaks surfaces as BodyReadError or DecodeError
\* wrapping the context's error; and in every case the call returns.
C5_CancelClassifiedByPhase ==
    /\ []C5_Safety
    /\ (call.pc \in {"inflight", "body"} /\ call.ctxDone) ~> Done

\* A cancellation during the decode of the body has surfaced as a DecodeError.
C5_Witness ==
    /\ Done
    /\ call.cancelAt = "body"
    /\ call.err.is = {ErrDecodeResponse}
    /\ call.err.cause = << "context canceled" >>

\* C6 as stated: every invocation issues exactly one network call.
C6_ExactlyOneNetworkCall == Done => call.netCalls = 1

\* C6, amended: an invocation issues at most one network call and never
\* retries: exactly one when serialization and request construction
\* succeed, none when one of them fails.
C6_AtMostOneNetworkCall ==
    /\ call.netCalls <= 1
    /\ Done => call.netCalls = (IF call.preflight = "ok" THEN 1 ELSE 0)
    /\ call.pc \in {"inflight", "body"} => call.netCalls = 1

\* A call has returned after a transport failure having made its one call.
C6_Witness ==
    /\ Done
    /\ call.transport = "failed"
    /\ call.netCalls = 1

\* C7 as stated: the body is decoded iff the status is in {200, 201} for the
\* creation calls and {200} for the others, and every other status is
\* classified as ApiError.
C7_OtherStatusIsApiError ==
    Responded
    => /\ (call.decodeCalls = 1) <=> (call.status \in AcceptableSet(call.w))
       /\ call.status \notin AcceptableSet(call.w)
          => ErrApiReturnedError \in call.err.is

\* C7, amended: the body is decoded iff the status is in {200, 201} for the
\* creation calls and {200} for the others; every other status is never
\* decoded and is classified as ApiError when its body can be read in full,
\* and as BodyReadError when the read fails.
C7_AcceptableStatusSets ==
    Responded
    => /\ (call.decodeCalls = 1) <=> (call.status \in AcceptableSet(call.w))
       /\ call.status \notin AcceptableSet(call.w)
          => /\ call.decodeCalls = 0
             /\ ~call.result.nonnil
             /\ call.err.is = (IF call.failAt = -1 THEN {ErrApiReturnedError}
                               ELSE {ErrReadResponseBody})

\* A 201 on an update call has been classified as ApiError.
C7_Witness ==
    /\ Done
    /\ call.w = "UpdateContact"
    /\ call.status = 201
    /\ call.err.is = {ErrApiReturnedError}
    /\ call.decodeCalls = 0

\* C8 as stated: a failed serialization of the request body yields a
\* SerializationError, a kind distinct from the four other kinds.
C8_SerializationErrorIsDistinct ==
    (Done /\ call.reqBody.present /\ call.reqBody.unsupported)
    => (call.err.nonnil /\ call.err.is \cap Sentinels = {})

\* C8, amended: a failed serialization of the request body makes the call
\* fail, before any network call, with an error of the TransportError kind
\* (ErrRequestFailed) that wraps the encoder's error; there is no separate
\* serialization kind.
C8_SerializationFailsAsRequestFailed ==
    (Done /\ call.reqBody.present /\ call.reqBody.unsupported)
    => /\ call.err.is = {ErrRequestFailed}
       /\ call.err.wraps
       /\ call.err.cause = << "json: unsupported value" >>
       /\ call.netCalls = 0
       /\ ~call.result.nonnil

\* A create call with an unserializable payload has returned.
C8_Witness ==
    /\ Done
    /\ call.w = "CreateDeal"
    /\ call.reqBody.unsupported
    /\ call.preflight = "marshal"
    /\ call.err.is = {ErrRequestFailed}

IsListing(w) == w \in {"ListContactsFilter", "ListDealsFilter"}

\* The URL of a call joined with the given separator.
UrlWith(sep) ==
    baseUrl \o << "/" >> \o call.endpoint \o << sep, "token", "=" >> \o token

\* C9 as stated: the token is joined with "?" when the endpoint has no query
\* string and with "&" otherwise; the choice depends on the endpoint only,
\* so a listing call uses "&" exactly when its filter encodes to a non-empty
\* query string.
C9_SeparatorDependsOnEndpointOnly ==
    call.preflight = "ok"
    => /\ call.url = UrlWith(IF Contains(call.endpoint, "?") THEN "&" ELSE "?")
       /\ IsListing(call.w)
          => (call.url = UrlWith("&") <=> call.query # <<>>)

\* C9, amended: the URL is the base URL, "/", the endpoint, a separator and
\* token=<token>; the separator is "&" when a "?" occurs anywhere in the
\* base URL or in the endpoint, and "?" otherwise; on a base URL without "?"
\* a listing call uses "&" exactly when its filter encodes to a non-empty
\* query string.
C9_SeparatorDependsOnWholeUrl ==
    call.preflight = "ok"
    => /\ call.url = UrlWith(IF Contains(baseUrl, "?") \/ Contains(call.endpoint, "?")
                             THEN "&" ELSE "?")
       /\ (IsListing(call.w) /\ ~Contains(baseUrl, "?"))
          => (call.url = UrlWith("&") <=> call.query # <<>>)

\* A listing call with an empty filter on a base URL that holds a "?" has
\* joined the token with "&".
C9_Witness ==
    /\ call.pc = "inflight"
    /\ call.w = "ListContactsFilter"
    /\ call.query = <<>>
    /\ Contains(baseUrl, "?")
    /\ call.url = UrlWith("&")

\* ------------------------------------------------- reading a query string
UnescapeAtom(a) ==
    CASE a = "+" -> " "
      [] a = "%26" -> "&"
      [] a = "%3D" -> "="
      [] a = "%3F" -> "?"
      [] a = "%2B" -> "+"
      [] a = "%2F" -> "/"
      [] a = "%25" -> "%"
      [] a = "%40" -> "@"
      [] a = "%7B" -> "{"
      [] a = "%7D" -> "}"
      [] a = "%7F" -> "CTL"
      [] OTHER -> a

QueryUnescape(s) == [i \in DOMAIN s |-> UnescapeAtom(s[i])]

\* The position of the first sep in s, or 0.
IndexOf(s, sep) ==
    IF Contains(s, sep)
    THEN CHOOSE i \in DOMAIN s : s[i] = sep /\ \A j \in 1 .. i - 1 : s[j] # sep
    ELSE 0

RECURSIVE Split(_, _)
Split(s, sep) ==
    IF IndexOf(s, sep) = 0 THEN << s >>
    ELSE << SubSeq(s, 1, IndexOf(s, sep) - 1) >>
         \o Split(SubSeq(s, IndexOf(s, sep) + 1, Len(s)), sep)

\* One "key=value" part as a pair.
ParsePair(part) ==
    LET i == IndexOf(part, "=") IN
    IF i = 0 THEN [key |-> QueryUnescape(part), val |-> <<>>]
    ELSE [key |-> QueryUnescape(SubSeq(part, 1, i - 1)),
          val |-> QueryUnescape(SubSeq(part, i + 1, Len(part)))]

\* url.ParseQuery: the pairs of a query string, in its order.
ParseQuery(s) ==
    IF s = <<>> THEN <<>>
    ELSE LET parts == Split(s, "&") IN [i \in DOMAIN parts |-> ParsePair(parts[i])]

\* How many times pair p occurs in the sequence ps.
Count(ps, p) == Cardinality({i \in DOMAIN ps : ps[i] = p})

SameBag(ps, qs) ==
    /\ Len(ps) = Len(qs)
    /\ \A i \in DOMAIN ps : Count(ps, ps[i]) = Count(qs, ps[i])

\* The pair a text, integer or boolean field is to contribute, if any.
ScalarKinds == {"String", "Bool"} \cup IntKinds

RECURSIVE ExpectedPairs(_)
ExpectedPairs(fs) ==
    IF fs = <<>> THEN <<>>
    ELSE LET f == Head(fs)
             key == IF f.tag \in {<<>>, << "-" >>} THEN f.name ELSE f.tag
             here ==
               CASE f.kind = "String" /\ f.val # <<>> -> << [key |-> key, val |-> f.val] >>
                 [] f.kind \in IntKinds /\ f.val # 0 ->
                       << [key |-> key, val |-> FormatInt(f.val)] >>
                 [] f.kind = "Bool" /\ f.val -> << [key |-> key, val |-> << "true" >>] >>
                 [] OTHER -> <<>>
         IN  here \o ExpectedPairs(Tail(fs))

IsZeroField(f) ==
    CASE f.kind = "String" -> f.val = <<>>
      [] f.kind \in IntKinds -> f.val = 0
      [] f.kind = "Bool" -> ~f.val
      [] f.kind = "Slice" -> f.val = <<>>
      [] OTHER -> FALSE

ListingEndpoint(w) ==
    IF w = "ListContactsFilter" THEN listContactsEndpoint ELSE listDealsEndpoint

\* C11: a record whose every field is at its zero value (empty text, zero
\* integer, false boolean, empty sequence) is encoded to the empty string
\* with no error, and a listing wrapper given that result calls the bare
\* endpoint: the only "?" of its URL is the one that joins the token.
C11_ZeroRecordCallsBareEndpoint ==
    (encOut.done /\ encIn.kind = "Struct"
       /\ \A i \in DOMAIN encIn.fields : IsZeroField(encIn.fields[i]))
    => /\ encOut.out = <<>>
       /\ ~encOut.err.nonnil
       /\ \A w \in {"ListContactsFilter", "ListDealsFilter"} :
             LET c == Begin(w, [out |-> encOut.out, err |-> encOut.err],
                            NoBody, "GET", ListingEndpoint(w))
             IN  /\ c.pc = "inflight"
                 /\ c.endpoint = ListingEndpoint(w)
                 /\ c.url = baseUrl \o << "/" >> \o ListingEndpoint(w)
                              \o << "?", "token", "=" >> \o token

\* A record of a zero integer and an empty sequence has been encoded to the
\* empty string.
C11_Witness ==
    /\ encOut.done
    /\ Len(encIn.fields) = 2
    /\ encIn.fields[1].kind = "Int" /\ encIn.fields[1].val = 0
    /\ encIn.fields[2].kind = "Slice" /\ encIn.fields[2].val = <<>>
    /\ encOut.out = <<>>
    /\ ~encOut.err.nonnil

\* The parameter name a field is to appear under.
ParamName(f) == IF f.tag # <<>> /\ f.tag # << "-" >> THEN f.tag ELSE f.name

\* A field that contributes at least one pair.
Emits(f) ==
    CASE f.kind = "String" -> f.val # <<>>
      [] f.kind \in IntKinds -> f.val # 0
      [] f.kind = "Bool" -> f.val
      [] f.kind = "Slice" -> f.val # <<>>
      [] OTHER -> FALSE

ParsedKeys(s) == {ParseQuery(s)[i].key : i \in DOMAIN ParseQuery(s)}

\* C12: the keys of the output are exactly the parameter names of the fields
\* that contribute a pair, where the parameter name is the query tag when
\* the tag is present and is not "-", and the declared name otherwise; so a
\* field tagged "custom" appears under custom and not under its declared
\* name.
C12_TagNamesTheParameter ==
    (encOut.done /\ encIn.kind = "Struct")
    => ParsedKeys(encOut.out)
          = {ParamName(encIn.fields[i]) :
                i \in {j \in DOMAIN encIn.fields : Emits(encIn.fields[j])}}

\* A record of a field tagged "custom" and a field tagged "-" has been
\* encoded under custom and under the second field's declared name.
C12_Witness ==
    /\ encOut.done
    /\ Len(encIn.fields) = 2
    /\ encIn.fields[1].name = << "Order" >> /\ encIn.fields[1].tag = << "custom" >>
    /\ encIn.fields[2].name = << "Direction" >> /\ encIn.fields[2].tag = << "-" >>
    /\ ParsedKeys(encOut.out) = {<< "custom" >>, << "Direction" >>}
    /\ encOut.out = << "Direction", "=", "asc", "&", "custom", "=",
                       "a", "%26", "b", "%3D", "%3F", "+", "%2B" >>

HasNestedRecord(data) ==
    \E i \in DOMAIN data.fields : data.fields[i].kind = "Struct"

\* C13 as stated: StructToQueryString fails with an invalid-input error and
\* the empty string whenever its input is not a record, and also whenever it
\* is a record that holds a nested record field.
C13_NotFlatInputFails ==
    (encOut.done /\ (encIn.kind # "Struct" \/ HasNestedRecord(encIn)))
    => (encOut.err.nonnil /\ encOut.out = <<>>)

\* C13, amended: StructToQueryString fails, with the error "input is not a
\* struct" and the empty string, exactly when its input is not a record (a
\* scalar, a map, nil, a pointer to a record); a record that holds a nested
\* record field is encoded without error, the nested field contributing no
\* pair.
C13_OnlyNonRecordInputFails ==
    encOut.done
    => /\ encIn.kind # "Struct"
          => /\ encOut.err.nonnil
             /\ encOut.err.cause = << "input is not a struct" >>
             /\ encOut.out = <<>>
       /\ encIn.kind = "Struct"
          => /\ ~encOut.err.nonnil
             /\ encOut.out
                  = StructToQueryString(
                       [encIn EXCEPT !.fields =
                           SelectSeq(@, LAMBDA f : f.kind # "Struct")]).out

\* A pointer to a record has been refused.
C13_Witness ==
    /\ encOut.done
    /\ encIn.kind = "Ptr"
    /\ encOut.err.nonnil
    /\ encOut.out = <<>>

\* The text a sequence element is to appear as.
ElemText(e) ==
    CASE e.kind = "String" -> e.val
      [] e.kind \in IntKinds -> FormatInt(e.val)
      [] e.kind = "Bool" -> IF e.val THEN << "true" >> ELSE << "false" >>

RECURSIVE AllExpectedPairs(_)
\* The pairs a record is to contribute, in the order of its fields: those of
\* the text, integer and boolean fields, and one pair per element of each
\* sequence field.
AllExpectedPairs(fs) ==
    IF fs = <<>> THEN <<>>
    ELSE LET f == Head(fs)
             here == IF f.kind = "Slice"
                     THEN [j \in DOMAIN f.val |->
                             [key |-> ParamName(f), val |-> ElemText(f.val[j])]]
                     ELSE ExpectedPairs(<< f >>)
         IN  here \o AllExpectedPairs(Tail(fs))

PairsUnder(ps, k) == SelectSeq(ps, LAMBDA p : p.key = k)

\* C14: for every sequence field, the pairs the output holds under the
\* field's parameter name are, in order, one pair per element of the field
\* (an element of empty text or of value zero included), next to the pairs
\* of the other fields of that name; a sequence field of n elements that is
\* alone under its name yields exactly n pairs, and none when n = 0.
C14_SequenceElementsInOrder ==
    (encOut.done /\ encIn.kind = "Struct")
    => \A i \in DOMAIN encIn.fields :
          encIn.fields[i].kind = "Slice"
          => LET f == encIn.fields[i]
                 k == ParamName(f)
                 got == PairsUnder(ParseQuery(encOut.out), k)
             IN  /\ got = PairsUnder(AllExpectedPairs(encIn.fields), k)
                 /\ (\A j \in DOMAIN encIn.fields \ {i} :
                        ParamName(encIn.fields[j]) # k)
                    => /\ Len(got) = Len(f.val)
                       /\ \A j \in DOMAIN f.val : got[j].val = ElemText(f.val[j])

\* A record of one sequence field of three elements, the second of empty
\* text and the third zero, has been encoded to three pairs in that order.
C14_Witness ==
    /\ encOut.done
    /\ Len(encIn.fields) = 1
    /\ encIn.fields[1].kind = "Slice"
    /\ Len(encIn.fields[1].val) = 3
    /\ encOut.out = << "tags", "=", "a", "&", "tags", "=", "&", "tags", "=", "0" >>

PairSet(ps) == {ps[i] : i \in DOMAIN ps}

\* A record that stands for the pairs read from a query string: one
\* sequence-of-text field per key, tagged with the key, holding the values
\* of that key in their order.
Rebuild(ps) ==
    LET ks == SortKeys({ps[i].key : i \in DOMAIN ps}) IN
    [kind |-> "Struct",
     fields |-> [n \in DOMAIN ks |->
                   LET vs == PairsUnder(ps, ks[n]) IN
                   [name |-> ks[n], tag |-> ks[n], kind |-> "Slice",
                    val |-> [j \in DOMAIN vs |->
                               [kind |-> "String", val |-> vs[j].val]]]]]

\* C15: the output of StructToQueryString read as a URL query string gives
\* back the pairs of the record, reserved characters in the values included;
\* the record built from the pairs read is encoded without error, and its
\* output read again gives the same set of pairs.
C15_RoundTripKeepsThePairs ==
    (encOut.done /\ encIn.kind = "Struct")
    => LET ps == ParseQuery(encOut.out)
           again == StructToQueryString(Rebuild(ps))
       IN  /\ PairSet(ps) = PairSet(AllExpectedPairs(encIn.fields))
           /\ ~again.err.nonnil
           /\ PairSet(ParseQuery(again.out)) = PairSet(ps)

\* A value holding "&", "=", "?", a space and "+" has gone through the round
\* trip next to a sequence with an element of empty text.
C15_Witness ==
    /\ encOut.done
    /\ Len(encIn.fields) = 2
    /\ encIn.fields[1].kind = "String"
    /\ encIn.fields[1].val = << "a", "&", "b", "=", "?", " ", "+" >>
    /\ encIn.fields[2].kind = "Slice" /\ Len(encIn.fields[2].val) = 3
    /\ [key |-> << "custom" >>, val |-> << "a", "&", "b", "=", "?", " ", "+" >>]
          \in PairSet(ParseQuery(StructToQueryString(Rebuild(ParseQuery(encOut.out))).out))
    /\ [key |-> << "tags" >>, val |-> <<>>]
          \in PairSet(ParseQuery(StructToQueryString(Rebuild(ParseQuery(encOut.out))).out))

\* C16: StructToQueryString is a pure, deterministic function: an invocation
\* leaves its input and the client's state as they were, and an invocation
\* on the record of an earlier invocation returns the string and the error
\* the earlier one returned, whatever order the map of url.Values is ranged
\* over.
C16_EncoderIsDeterministic ==
    [][/\ encIn' = encIn
       /\ baseUrl' = baseUrl /\ token' = token /\ call' = call /\ calls' = calls
       /\ encOut'.done /\ encOut'.out = StructToQueryString(encIn).out
       /\ encOut.done => (encOut'.out = encOut.out /\ encOut'.err = encOut.err)]_vars

\* The record of the listing tests, of four keys, has been encoded twice.
C16_Witness ==
    /\ invocations = 2
    /\ encIn = ExampleRecord
    /\ encOut.done
    /\ encOut.out = << "direction", "=", "asc", "&", "limit", "=", "5", "&",
                       "order", "=", "name", "&", "page", "=", "1" >>

\* The outcome of the call c when it runs alone on the client, with the
\* inputs of c and against the response c received.
AloneOutcome(c) ==
    LET s == IF c.w = "ListDealsFilter"
             THEN Begin(c.w, [out |-> c.query, err |-> NilErr], c.reqBody, "GET",
                        listDealsEndpoint)
             ELSE Begin(c.w, NoQuery, c.reqBody, "POST", createContactEndpoint)
    IN  IF s.pc = "done" THEN s
        ELSE IF c.transport = "failed"
        THEN TransportFailed(s, RawErr(<< "connection refused" >>))
        ELSE HandleResponse(TransportResponded(s, c.status, c.body, c.failAt))

C17_Isolated ==
    \A t \in Callers :
       calls[t].pc = "done" => calls[t] = AloneOutcome(calls[t])

C17_StepOfOneCaller ==
    /\ baseUrl' = baseUrl
    /\ token' = token
    /\ \A t, u \in Callers :
          (t # u /\ calls'[t] # calls[t]) => calls'[u] = calls[u]
    /\ \A t \in Callers : calls[t].pc = "done" => calls'[t] = calls[t]

\* C17: with several callers on one client, in every interleaving of their
\* steps, no step writes the base URL or the token, a step changes the
\* request, response, error and result values of one caller only and never
\* those of a call that has returned, and the result, the error and the URL
\* of every call that has returned are those it has when it runs alone
\* against the same response.
C17_ConcurrentCallsAreIsolated ==
    []C17_Isolated /\ [][C17_StepOfOneCaller]_vars

\* Two callers have returned from the same wrapper with different outcomes:
\* one with a decoded result, the other with an API error.
C17_Witness ==
    /\ calls[1].pc = "done" /\ calls[2].pc = "done"
    /\ calls[1].w = "ListDealsFilter" /\ calls[2].w = "ListDealsFilter"
    /\ calls[1].result.nonnil /\ ~calls[1].err.nonnil
    /\ calls[2].err.is = {ErrApiReturnedError} /\ ~calls[2].result.nonnil

\* C18: for every wrapper, when the status is not acceptable and the read of
\* the body fails, the call returns an error that is ErrReadResponseBody
\* and no other kind, wraps the failure of the read and carries the status
\* code; the body was read once, no decode was attempted and the result is
\* nil.
C18_FailedReadIsBodyReadError ==
    (Responded /\ call.status \notin AcceptableSet(call.w) /\ call.failAt # -1)
    => /\ call.err.nonnil
       /\ call.err.is = {ErrReadResponseBody}
       /\ call.err.wraps
       /\ call.err.cause = ReadFailure(call).cause
       /\ call.err.status = call.status
       /\ call.readCalls = 1
       /\ call.decodeCalls = 0
       /\ call.result = NilResult

\* UpdateDeal has returned from a 404 whose body broke after its first
\* chunk, with no cancellation involved.
C18_Witness ==
    /\ Responded
    /\ call.w = "UpdateDeal"
    /\ call.status = 404
    /\ call.body = << "{}", "not found" >>
    /\ call.failAt = 1
    /\ ~call.ctxDone
    /\ call.err.is = {ErrReadResponseBody}
    /\ call.err.status = 404
    /\ call.err.cause = << "unexpected EOF" >>

\* The kinds the switch of the encoder has a case for.
HandledKinds == {"String", "Bool", "Slice"} \cup IntKinds

\* C19: a field of a kind other than text, integer, boolean or sequence (a
\* floating-point number, a pointer, a map, an interface value, an unsigned
\* integer, a nested record) never causes an error and contributes no pair:
\* the pairs of the output are those of the fields of the four kinds, and
\* the output is the one of the record without the fields of other kinds.
C19_OtherKindsAreSkipped ==
    (encOut.done /\ encIn.kind = "Struct")
    => /\ ~encOut.err.nonnil
       /\ SameBag(ParseQuery(encOut.out),
                  AllExpectedPairs(SelectSeq(encIn.fields,
                                             LAMBDA f : f.kind \in HandledKinds)))
       /\ encOut.out
            = StructToQueryString(
                 [encIn EXCEPT !.fields =
                     SelectSeq(@, LAMBDA f : f.kind \in HandledKinds)]).out

\* A record of a floating-point field followed by a text field has been
\* encoded to the pair of the text field.
C19_Witness ==
    /\ encOut.done
    /\ Len(encIn.fields) = 2
    /\ encIn.fields[1].kind = "Float64"
    /\ encIn.fields[2].kind = "String"
    /\ ~encOut.err.nonnil
    /\ encOut.out = << "limit", "=", "5" >>

\* C20: every wrapper returns one of two outcomes: a non-nil result with a
\* nil error, or a nil result with a non-nil error; never both non-nil and
\* never both nil.
C20_ResultXorError ==
    Done => (call.result.nonnil <=> ~call.err.nonnil)

\* CreateDeal has returned its decoded result from a 201, with a nil error.
C20_Witness ==
    /\ Done
    /\ call.w = "CreateDeal"
    /\ call.status = 201
    /\ call.result.nonnil
    /\ ~call.err.nonnil

\* The query string of a URL: what follows its first "?".
QueryPart(url) ==
    IF IndexOf(url, "?") = 0 THEN <<>>
    ELSE SubSeq(url, IndexOf(url, "?") + 1, Len(url))

\* The pairs of key token in the query string of a URL.
TokenPairs(url) == PairsUnder(ParseQuery(QueryPart(url)), << "token" >>)

\* C21: the URL of every call that reaches the transport carries the query
\* parameter token exactly once, and its value is the token the client was
\* configured with, whatever the filter of a listing call holds.
C21_TokenExactlyOnce ==
    call.preflight = "ok"
    => /\ Len(TokenPairs(call.url)) = 1
       /\ TokenPairs(call.url)[1].val = token

\* C22: the steps of a call are ordered.  A call whose query encoding, body
\* serialization or request construction failed has returned an error with
\* no network call issued and no response body held; a network call is
\* issued only after all of them have completed; and the status, the body
\* read, the decode and the close of the body exist only after the transport
\* call has returned a response.
C22_PreflightBeforeNetwork ==
    /\ call.preflight \in {"encode", "marshal", "newrequest"}
       => /\ Done
          /\ call.err.nonnil /\ call.result = NilResult
          /\ call.netCalls = 0 /\ call.transport = "none"
          /\ ~call.bodyOpen /\ call.bodyCloses = 0
          /\ call.status = 0 /\ call.readCalls = 0 /\ call.decodeCalls = 0
    /\ call.netCalls > 0
       => /\ call.preflight = "ok"
          /\ ~call.reqBody.unsupported
          /\ ~Contains(call.url, "CTL")
    /\ (call.status # 0 \/ call.bodyOpen \/ call.bodyCloses > 0
          \/ call.readCalls > 0 \/ call.decodeCalls > 0)
       => (call.transport = "ok" /\ call.netCalls > 0)

\* UpdateContact with an identifier that makes the URL unparsable has
\* returned from the construction of the request without a network call.
C22_Witness ==
    /\ Done
    /\ call.w = "UpdateContact"
    /\ call.preflight = "newrequest"
    /\ call.err.is = {ErrRequestFailed}
    /\ call.netCalls = 0
    /\ ~call.bodyOpen

====
